---- MODULE Spec2Model ----
(***************************************************************************)
(* OAuth 2.0 authorization-code flow of BigDataOAuthClient                 *)
(* (src/modules/authentication/clients.py) and of the HubSpot routes       *)
(* (src/modules/integration/routes/hubspot.py).                            *)
(*                                                                         *)
(* The two database tables (oauth_states, user_connectors) are the state.  *)
(* A call that reaches the one real suspension point of its coroutine,     *)
(* the await of AsyncClient.post, is in flight (a bag of call records)     *)
(* until the response arrives; `last` is the record of the call that       *)
(* returned most recently at the current clock reading.  The database      *)
(* client is a keyed store: a select returns the rows matching its         *)
(* filters, an insert / upsert writes one row atomically, and a write may  *)
(* fail with an exception (which the code logs and swallows).              *)
(* Optional values (None in Python) are sets of at most one element.       *)
(* DataCleaner.clean (src/modules/etl/transform.py) is a pure function,    *)
(* modelled as the operator Clean and run under CleanerSpec.               *)
(***************************************************************************)
EXTENDS Integers, FiniteSets, Sequences, Bags, TLC

\* ---------------------------------------------------------------- bounds
MaxInFlight == 2
MaxTicks == 1
MaxBatch == 2
MaxRows == 2

\* ------------------------------------------------ documented parameters
\* ttl of an OAuthState (15 min) and safety margin of the accessor (60 s),
\* in seconds; the code reads neither
DefaultTtl == 900
SafetyMargin == 60

\* ------------------------------------------------------------ data types
None == {}
Some(v) == {v}
Val(o) == CHOOSE v \in o : TRUE

TickSteps == {DefaultTtl + 1}

\* values secrets.token_urlsafe(32) can return; values a caller can present
StateValues == {"s1"}
PresentedStates == StateValues \cup {"forged"}
Codes == {"ABC", ""}
ProviderErrors == {None, Some("access_denied")}

\* identity tuples (connector_id, organization_id, user_id, project_id)
MkKey(c, o, u, p) ==
    [connector_id |-> c, organization_id |-> o, user_id |-> u, project_id |-> p]
K1 == MkKey("hubspot", "org1", "u1", "p1")
K2 == MkKey("hubspot", "org1", "u1", "p2")
K0 == MkKey("hubspot", "org1", "u1", "")
KeySet == {K1, K2}
\* the identities a callback can arrive with (project_id is a query parameter)
CallbackKeys == KeySet \cup {K0}

\* JSON bodies of the token endpoint: a dict, an absent key is None
MkBody(a, r, ein, eat, err) ==
    [access_token |-> a, refresh_token |-> r, expires_in |-> ein,
     expires_at |-> eat, scope |-> None, error |-> err]
EmptyBody == MkBody(None, None, None, None, None)
TokenBodies ==
    { MkBody(Some("a1"), Some("r1"), Some(3600), None, None),
      MkBody(Some("a2"), None, Some(3600), Some(30), None),
      MkBody(Some("a2"), Some("r2"), Some(3600), Some(1000), None),
      MkBody(Some("a1"), Some("r1"), None, None, None),
      EmptyBody }
ErrorBody == MkBody(None, None, None, None, Some("invalid_grant"))

\* what AsyncClient.post yields: a status and a body; status 0 is a
\* transport failure (the await raises)
Responses ==
    [status : {200}, body : TokenBodies]
      \cup [status : {400, 500}, body : {ErrorBody}]
      \cup [status : {0}, body : {EmptyBody}]

\* the query parameters a callback arrives with; an empty code is listed
\* only where the code is read (no provider error, a state that was issued)
CallbackRequests ==
    {q \in [code : Codes, state : PresentedStates, error : ProviderErrors,
            key : CallbackKeys] :
        q.code = "" => (q.error = None /\ q.state \in StateValues)}

VARIABLES
    now,              \* wall clock, seconds
    ticks,            \* number of clock advances so far
    oauth_states,     \* table oauth_states: the state values it holds
    created_at,       \* per state value returned by initiate: when
    consumed,         \* per state value: times it passed the state check
    user_connectors,  \* table user_connectors: key -> optional row
    calls,            \* bag of the calls awaiting their POST
    last,             \* the call that returned most recently
    batch,            \* the run of back-to-back get_access_token calls
    etl               \* DataCleaner: a raw list and what clean made of it

vars == <<now, ticks, oauth_states, created_at, consumed, user_connectors,
          calls, last, batch, etl>>

\* the text a failed call hands its caller: a message, and what is
\* interpolated into it (the provider's error parameter, a response body)
MkDetail(msg, error, echo) == [msg |-> msg, error |-> error, echo |-> echo]
NoDetail == MkDetail("", None, None)

NoCall ==
    [op |-> "none", key |-> K1, state |-> "", err |-> FALSE,
     accepted |-> FALSE, outcome |-> "", http |-> 0, token |-> None,
     data |-> EmptyBody, status |-> 0, posts |-> 0, url |-> None,
     detail |-> NoDetail]
NoBatch == [key |-> K1, n |-> 0, posts |-> 0]

\* ------------------------------------------------------- pure helpers
\* Python truthiness of an optional string / of a dict
Truthy(o) == o # None /\ o # Some("")
IsEmptyDict(td) == \A k \in DOMAIN td : td[k] = None

\* a callback route that goes on to the exchange whatever the provider said
ProviderErrorIgnored(error) == FALSE

\* hubspot_oauth_callback, line 40: if params.error
ProviderErrorPresent(error) == Truthy(error)

\* initiate_oauth_flow, lines 288-296: the query parameters of the URL
AuthUrl(state) ==
    [client_id |-> "client_id", redirect_uri |-> "redirect_uri",
     response_type |-> "code", scope |-> "oauth", state |-> state]

\* a state lookup that finds whatever it is asked for
FetchOAuthStateUnchecked(table, state) == {state}

\* fetch_oauth_state: select * from oauth_states where state = :state
FetchOAuthState(table, state) == {s \in table : s = state}

\* store_oauth_state: the insert, its exception logged and swallowed
StoreOAuthState(table, state, dbOk) ==
    IF dbOk THEN table \cup {state} ELSE table

\* store_tokens, lines 362-371: the argument checks; "" when none raises
StoreTokensCheck(td, key) ==
    IF IsEmptyDict(td) THEN "No token data provided"
    ELSE IF key.connector_id = "" THEN "No connector ID provided"
    ELSE IF key.organization_id = "" THEN "No organization ID provided"
    ELSE IF key.user_id = "" THEN "No user ID provided"
    ELSE IF key.project_id = "" THEN "No project ID provided"
    ELSE ""

\* store_tokens, lines 374-383: the row the upsert writes
TokenRow(td) ==
    [access_token |-> td.access_token, refresh_token |-> td.refresh_token,
     expires_at |-> td.expires_at, scope |-> td.scope]

\* an upsert that keeps the stored refresh_token when the response has none
StoreTokensKeepingRefresh(table, td, key, dbOk) ==
    IF ~dbOk THEN table
    ELSE [table EXCEPT ![key] =
            Some([TokenRow(td) EXCEPT !.refresh_token =
                    IF td.refresh_token = None /\ table[key] # None
                      THEN Val(table[key]).refresh_token
                      ELSE td.refresh_token])]

\* a write in two statements that is seen after the first: the new
\* access_token beside the other columns of the previous row
StoreTokensAccessTokenFirst(table, td, key, dbOk) ==
    IF ~dbOk THEN table
    ELSE IF table[key] = None THEN [table EXCEPT ![key] = Some(TokenRow(td))]
    ELSE [table EXCEPT ![key] =
            Some([Val(table[key]) EXCEPT !.access_token = td.access_token])]

\* store_tokens, lines 373-385: the upsert, its exception swallowed
StoreTokens(table, td, key, dbOk) ==
    IF dbOk THEN [table EXCEPT ![key] = Some(TokenRow(td))] ELSE table

\* exchange_code, lines 332-346: how the call ends for a response
ExchangeOutcome(resp, key) ==
    IF resp.status = 0 THEN "transport error"
    ELSE IF resp.status # 200 THEN "Token exchange failed"
    ELSE IF StoreTokensCheck(resp.body, key) # ""
      THEN StoreTokensCheck(resp.body, key)
    ELSE "ok"

\* an exchange that stores the response body before it looks at the status
ExchangeWritesBeforeStatusCheck(resp, key) ==
    resp.status # 0 /\ StoreTokensCheck(resp.body, key) = ""

\* exchange_code, lines 334-345: the upsert of store_tokens is reached
\* only past the status check and the argument checks
ExchangeWrites(resp, key) == ExchangeOutcome(resp, key) = "ok"

\* refresh_access_token, line 402: get_refresh_token is called without
\* await, so the value is the coroutine object and the query never runs
RefreshTokenArgument(table, key) == Some("<coroutine object>")

\* refresh_access_token, lines 417-426: how the call ends for a response;
\* on 200 store_tokens is called with one argument of five, which raises
\* TypeError before any statement of store_tokens runs
RefreshOutcome(resp) ==
    IF resp.status = 0 THEN "transport error"
    ELSE IF resp.status # 200 THEN "Token refresh failed"
    ELSE "TypeError"

\* an accessor that selects the wrong column
ReturnedRefreshToken(row) == row.refresh_token

\* get_access_token, line 451: the column the caller is handed
ReturnedToken(row) == row.access_token

\* how the upsert of store_tokens can end for a call and its response: it
\* can raise only where it is executed
UpsertResults(rec, resp) ==
    IF rec.op = "callback" /\ ExchangeWrites(resp, rec.key)
      THEN BOOLEAN ELSE {TRUE}

InFlight == BagToSet(calls)
Dispatch(rec) == calls (+) SetToBag({rec})
Retire(rec) == calls (-) SetToBag({rec})
Bump(n) == IF n < 2 THEN n + 1 ELSE n

\* a call ends: its outcome, the HTTP status of the route's answer (0 when
\* there is none) and, as detail, the message of what it raised
Finish(rec, out, http) ==
    [rec EXCEPT !.outcome = out, !.http = http,
                !.detail = MkDetail(out, None, None)]

\* hubspot_oauth_callback, lines 40-44 and 60-64: the detail is str(e) of
\* the HTTPException(400) raised inside the try, which Starlette renders
\* as "<status>: <detail>"
DeniedDetail(error) == MkDetail("400: Authorization failed", error, None)

\* exchange_code, lines 334-337, and hubspot_oauth_callback, lines 60-64:
\* the message of a non-200 answer interpolates the response body
ExchangeDetail(resp, key) ==
    MkDetail(ExchangeOutcome(resp, key), None,
             IF resp.status \notin {0, 200} THEN Some(resp.body) ELSE None)

\* ------------------------------------------ DataCleaner (etl/transform.py)
\* a dict row is the sequence of its (key, value) items in insertion
\* order, keys distinct; a value is None or a string
ColumnNames == {"a", "b"}
CellValues == {None, Some("N/A"), Some("x")}
Items == ColumnNames \X CellValues
DictRows ==
    {<<>>} \cup {<<i>> : i \in Items}
           \cup {p \in Items \X Items : p[1][1] # p[2][1]}
RawLists == UNION {[1..n -> DictRows] : n \in 0..MaxRows}

\* Python's == on two dicts: the same items, whatever their order
AsDict(row) == {row[i] : i \in DOMAIN row}

\* clean, line 25: tuple(row.items()), the items in insertion order
RowTuple(row) == row

\* clean, line 31: every None value replaced by 'N/A'
CleanedRow(row) ==
    [i \in DOMAIN row |->
        <<row[i][1], IF row[i][2] = None THEN Some("N/A") ELSE row[i][2]>>]

\* clean, lines 23-32: the loop from row i on, with `seen` and
\* `cleaned_data` as they stand
RECURSIVE CleanLoop(_, _, _, _)
CleanLoop(data, i, seen, cleaned_data) ==
    IF i > Len(data) THEN cleaned_data
    ELSE IF RowTuple(data[i]) \in seen
      THEN CleanLoop(data, i + 1, seen, cleaned_data)
    ELSE CleanLoop(data, i + 1, seen \cup {RowTuple(data[i])},
                   Append(cleaned_data, CleanedRow(data[i])))

\* DataCleaner.clean
Clean(data) == CleanLoop(data, 1, {}, <<>>)

NoEtl == [data |-> <<>>, once |-> None, twice |-> None]

\* ---------------------------------------------------------------- Init
Init ==
    /\ now = 0
    /\ ticks = 0
    /\ oauth_states = {}
    /\ created_at = [s \in StateValues |-> None]
    /\ consumed = [s \in StateValues |-> 0]
    /\ user_connectors = [k \in KeySet |-> None]
    /\ calls = EmptyBag
    /\ last = NoCall
    /\ batch = NoBatch
    /\ etl = NoEtl

\* ------------------------------------------------------------- actions
Tick(d) ==
    /\ ticks < MaxTicks
    /\ now' = now + d
    /\ ticks' = ticks + 1
    /\ last' = NoCall
    /\ batch' = NoBatch
    /\ UNCHANGED <<etl, oauth_states, created_at, consumed, user_connectors, calls>>

\* POST /initiate-oauth-flow -> initiate_oauth_flow (no suspension point)
InitiateOAuthFlow(state, dbOk) ==
    /\ created_at[state] = None
    /\ oauth_states' = StoreOAuthState(oauth_states, state, dbOk)
    /\ created_at' = [created_at EXCEPT ![state] = Some(now)]
    /\ last' = Finish([NoCall EXCEPT !.op = "initiate", !.state = state,
                                     !.url = Some(AuthUrl(state))], "ok", 200)
    /\ batch' = NoBatch
    /\ UNCHANGED <<etl, now, ticks, consumed, user_connectors, calls>>

\* GET /oauth-callback -> exchange_code, up to the await of the POST
OAuthCallback(code, state, error, key) ==
    LET rec == [NoCall EXCEPT !.op = "callback", !.key = key,
                  !.state = state, !.err = (error # None)]
        acc == [rec EXCEPT !.accepted = TRUE]
        count == [consumed EXCEPT ![state] = Bump(@)]
    IN  /\ batch' = NoBatch
        /\ UNCHANGED <<etl, now, ticks, oauth_states, created_at, user_connectors>>
        /\ IF ProviderErrorPresent(error)
             THEN /\ last' = [Finish(rec, "Authorization failed", 500)
                                  EXCEPT !.detail = DeniedDetail(error)]
                  /\ UNCHANGED <<calls, consumed>>
           ELSE IF FetchOAuthState(oauth_states, state) = {}
             THEN /\ last' = Finish(rec, "Invalid OAuth state", 500)
                  /\ UNCHANGED <<calls, consumed>>
           ELSE IF ~Truthy(Some(code))
             THEN /\ last' = Finish(acc, "No authorization code provided", 500)
                  /\ consumed' = count
                  /\ UNCHANGED calls
           ELSE /\ BagCardinality(calls) < MaxInFlight
                /\ calls' = Dispatch([acc EXCEPT !.posts = 1])
                /\ consumed' = count
                /\ UNCHANGED last

\* exchange_code after the POST returned
ExchangeRespond(rec, resp, dbOk) ==
    /\ rec \in InFlight /\ rec.op = "callback"
    /\ LET out == ExchangeOutcome(resp, rec.key)
           seen == [rec EXCEPT !.status = resp.status,
                      !.data = IF resp.status = 0 THEN EmptyBody ELSE resp.body]
       IN  /\ last' = [Finish(seen, out, IF out = "ok" THEN 200 ELSE 500)
                          EXCEPT !.detail = ExchangeDetail(resp, rec.key)]
           /\ user_connectors' =
                IF ExchangeWrites(resp, rec.key)
                  THEN StoreTokens(user_connectors, resp.body, rec.key, dbOk)
                  ELSE user_connectors
    /\ calls' = Retire(rec)
    /\ batch' = NoBatch
    /\ UNCHANGED <<etl, now, ticks, oauth_states, created_at, consumed>>

\* a refresh that waits while any other refresh is awaiting its POST
RefreshBehindGlobalLock(key) ==
    /\ \A r \in InFlight : r.op # "refresh"
    /\ BagCardinality(calls) < MaxInFlight
    /\ calls' = Dispatch([NoCall EXCEPT !.op = "refresh", !.key = key,
                                       !.posts = 1])
    /\ batch' = NoBatch
    /\ UNCHANGED <<etl, now, ticks, oauth_states, created_at, consumed,
                   user_connectors, last>>

\* refresh_access_token up to the await of the POST
RefreshAccessToken(key) ==
    LET rec == [NoCall EXCEPT !.op = "refresh", !.key = key]
    IN  /\ batch' = NoBatch
        /\ UNCHANGED <<etl, now, ticks, oauth_states, created_at, consumed,
                       user_connectors>>
        /\ IF ~Truthy(RefreshTokenArgument(user_connectors, key))
             THEN /\ last' = Finish(rec, "No refresh token found", 0)
                  /\ UNCHANGED calls
           ELSE /\ BagCardinality(calls) < MaxInFlight
                /\ calls' = Dispatch([rec EXCEPT !.posts = 1])
                /\ UNCHANGED last

\* refresh_access_token after the POST returned
RefreshRespond(rec, resp) ==
    /\ rec \in InFlight /\ rec.op = "refresh"
    /\ last' = Finish([rec EXCEPT !.status = resp.status,
                         !.data = IF resp.status = 0 THEN EmptyBody
                                  ELSE resp.body],
                      RefreshOutcome(resp), 0)
    /\ calls' = Retire(rec)
    /\ batch' = NoBatch
    /\ UNCHANGED <<etl, now, ticks, oauth_states, created_at, consumed,
                   user_connectors>>

\* an accessor whose select leaves out the project_id filter
GetAccessTokenAcrossProjects(key) ==
    \E k \in {x \in KeySet : /\ x.connector_id = key.connector_id
                              /\ x.organization_id = key.organization_id
                              /\ x.user_id = key.user_id} :
        LET row == user_connectors[k]
            rec == [NoCall EXCEPT !.op = "get", !.key = key]
            run == IF batch.n > 0 /\ batch.key = key THEN batch.n ELSE 0
        IN  /\ run < MaxBatch
            /\ last' =
                 IF row = None THEN Finish(rec, "no row", 0)
                 ELSE Finish([rec EXCEPT !.token = ReturnedToken(Val(row))],
                             "ok", 0)
            /\ batch' = [key |-> key, n |-> run + 1,
                         posts |-> (IF run = 0 THEN 0 ELSE batch.posts)
                                     + rec.posts]
            /\ UNCHANGED <<etl, now, ticks, oauth_states, created_at,
                           consumed, user_connectors, calls>>

\* get_access_token (no suspension point): select access_token of the row
GetAccessToken(key) ==
    LET row == user_connectors[key]
        rec == [NoCall EXCEPT !.op = "get", !.key = key]
        run == IF batch.n > 0 /\ batch.key = key THEN batch.n ELSE 0
    IN  /\ run < MaxBatch
        /\ last' =
             IF row = None THEN Finish(rec, "no row", 0)
             ELSE Finish([rec EXCEPT !.token = ReturnedToken(Val(row))], "ok", 0)
        /\ batch' = [key |-> key, n |-> run + 1,
                     posts |-> (IF run = 0 THEN 0 ELSE batch.posts) + rec.posts]
        /\ UNCHANGED <<etl, now, ticks, oauth_states, created_at, consumed,
                       user_connectors, calls>>

\* get_refresh_token (no suspension point): select refresh_token of the row
GetRefreshToken(key) ==
    LET row == user_connectors[key]
        rec == [NoCall EXCEPT !.op = "get_refresh", !.key = key]
    IN  /\ last' =
             IF row = None THEN Finish(rec, "no row", 0)
             ELSE Finish([rec EXCEPT !.token = Val(row).refresh_token], "ok", 0)
        /\ batch' = NoBatch
        /\ UNCHANGED <<etl, now, ticks, oauth_states, created_at, consumed,
                       user_connectors, calls>>

\* the task of a call awaiting its POST is cancelled: CancelledError is
\* raised at the await of client.post, `async with` closes the client and
\* with it the request, and no later statement of the call runs
Cancel(rec) ==
    /\ rec \in InFlight
    /\ last' = Finish(rec, "CancelledError", 0)
    /\ calls' = Retire(rec)
    /\ batch' = NoBatch
    /\ UNCHANGED <<etl, now, ticks, oauth_states, created_at, consumed,
                   user_connectors>>

Next ==
    \/ \E d \in TickSteps : Tick(d)
    \/ \E s \in StateValues, dbOk \in BOOLEAN : InitiateOAuthFlow(s, dbOk)
    \/ \E q \in CallbackRequests : OAuthCallback(q.code, q.state, q.error, q.key)
    \/ \E rec \in InFlight, r \in Responses :
          \E dbOk \in UpsertResults(rec, r) : ExchangeRespond(rec, r, dbOk)
    \/ \E k \in KeySet : RefreshAccessToken(k)
    \/ \E rec \in InFlight, r \in Responses : RefreshRespond(rec, r)
    \/ \E k \in KeySet : GetAccessToken(k)
    \/ \E k \in KeySet : GetRefreshToken(k)
    \/ \E rec \in InFlight : Cancel(rec)

Spec == Init /\ [][Next]_vars

\* ------------------------------------------- DataCleaner on its own
\* cleaned_data = cleaner.clean(raw_data), for any raw list of dict rows
CleanerInit ==
    /\ now = 0
    /\ ticks = 0
    /\ oauth_states = {}
    /\ created_at = [s \in StateValues |-> None]
    /\ consumed = [s \in StateValues |-> 0]
    /\ user_connectors = [k \in KeySet |-> None]
    /\ calls = EmptyBag
    /\ last = NoCall
    /\ batch = NoBatch
    /\ etl \in [data : RawLists, once : {None}, twice : {None}]

\* cleaner.clean(raw_data)
CleanData ==
    /\ etl.once = None
    /\ etl' = [etl EXCEPT !.once = Some(Clean(etl.data))]
    /\ UNCHANGED <<now, ticks, oauth_states, created_at, consumed,
                   user_connectors, calls, last, batch>>

\* cleaner.clean applied to the list it returned
CleanAgain ==
    /\ etl.once # None /\ etl.twice = None
    /\ etl' = [etl EXCEPT !.twice = Some(Clean(Val(etl.once)))]
    /\ UNCHANGED <<now, ticks, oauth_states, created_at, consumed,
                   user_connectors, calls, last, batch>>

CleanerNext == CleanData \/ CleanAgain

CleanerSpec == CleanerInit /\ [][CleanerNext]_vars

TypeOK ==
    /\ now \in Nat
    /\ ticks \in 0..MaxTicks
    /\ oauth_states \subseteq StateValues
    /\ BagCardinality(calls) <= MaxInFlight
    /\ batch.n \in 0..MaxBatch
\* ------------------------------------------------------------ the claims
Row(k) == Val(user_connectors[k])
Age(s) == now - Val(created_at[s])
\* the stored expiry is at or before now plus the safety margin
Expiring(k) ==
    /\ user_connectors[k] # None
    /\ Row(k).expires_at # None
    /\ Val(Row(k).expires_at) <= now + SafetyMargin
\* the stored expiry is more than the safety margin in the future
Fresh(k) ==
    /\ user_connectors[k] # None
    /\ Row(k).expires_at # None
    /\ Val(Row(k).expires_at) > now + SafetyMargin
\* this step is a get_access_token call returning
GetStep == batch' # batch /\ batch'.n > 0
\* this step is a call returning after its POST
RespondStep(op) == calls' # calls /\ BagCardinality(calls') < BagCardinality(calls)
                   /\ last'.op = op

\* C1: every issued state value passes the state check at most once, and
\* once it has passed it is no longer in the state store.
C1_ConsumedOnce ==
    \A s \in StateValues :
        /\ consumed[s] <= 1
        /\ consumed[s] >= 1 => s \notin oauth_states

\* C2: of the callbacks in flight at the same time that presented the same
\* state value, at most one has passed the state check.
C2_OneWinner ==
    \A r \in InFlight : r.op = "callback" =>
        BagCardinality([q \in {x \in InFlight : x.op = "callback" /\ x.state = r.state}
                          |-> calls[q]]) <= 1

\* C3: when two or more back-to-back get_access_token calls for one key
\* found its token expiring, exactly one refresh POST was made for them.
C3_SingleFlightRefresh ==
    (last.op = "get" /\ batch.n >= 2 /\ Expiring(last.key)) => batch.posts = 1

\* C4: a callback carrying a provider error fails without a POST, without
\* consuming the state and without writing a Credential.
C4_ErrorCallbackInert ==
    [][(last'.op = "callback" /\ last'.err /\ (last' # last \/ batch' # batch))
        => /\ last'.outcome = "Authorization failed"
           /\ last'.http # 200
           /\ last'.posts = 0
           /\ ~last'.accepted
           /\ UNCHANGED <<oauth_states, consumed, user_connectors, calls>>]_vars
C4_Witness ==
    /\ last.op = "callback" /\ last.err
    /\ last.state \in oauth_states
    /\ last.outcome = "Authorization failed"

\* C5: a state value passes the state check only while its age is within
\* the ttl.
C5_ExpiredStateRejected ==
    [][\A s \in StateValues :
          consumed'[s] > consumed[s] => Age(s) <= DefaultTtl]_vars

\* C6: the Credential table changes only in a step in which a code exchange
\* returns successfully, and then only the row of that call's key changes,
\* to the complete row of that call's token response; so a failed exchange
\* or refresh leaves every stored Credential as it was.
C6_FailureLeavesCredential ==
    [][user_connectors' # user_connectors
        => /\ RespondStep("callback")
           /\ last'.outcome = "ok"
           /\ \A k \in KeySet : k # last'.key =>
                  user_connectors'[k] = user_connectors[k]
           /\ user_connectors'[last'.key] = Some(TokenRow(last'.data))]_vars
C6_Witness ==
    /\ last.op \in {"callback", "refresh"}
    /\ last.posts = 1
    /\ last.outcome # "ok"
    /\ last.key \in KeySet
    /\ user_connectors[last.key] # None

\* C7: a refresh whose token response has status 200 succeeds, and the
\* stored refresh_token is the response's when it carries one and the
\* previous one when it does not.
C7_RefreshTokenRule ==
    [][(RespondStep("refresh") /\ last'.status = 200
          /\ user_connectors[last'.key] # None)
        => /\ last'.outcome = "ok"
           /\ user_connectors'[last'.key] # None
           /\ Val(user_connectors'[last'.key]).refresh_token =
                IF last'.data.refresh_token = None
                  THEN Row(last'.key).refresh_token
                  ELSE last'.data.refresh_token]_vars

\* C8: get_access_token on an expiring Credential made a refresh POST and
\* returned the access_token of the refresh response.
C8_ExpiringTriggersRefresh ==
    (last.op = "get" /\ Expiring(last.key))
        => /\ last.posts = 1
           /\ last.data.access_token # None
           /\ last.token = last.data.access_token

C10_ExchangeStoresCredential ==
    (last.op = "callback" /\ last.outcome = "ok")
        => /\ user_connectors[last.key] # None
           /\ Row(last.key).access_token = last.data.access_token
           /\ Row(last.key).refresh_token = last.data.refresh_token
           /\ last.data.expires_in # None
           /\ Row(last.key).expires_at = Some(now + Val(last.data.expires_in))

\* copies of a call record among the calls in flight
Copies(bag, r) == IF r \in BagToSet(bag) THEN bag[r] ELSE 0
\* the calls that were dispatched (sent their POST) in this step
Dispatched == {r \in BagToSet(calls') : Copies(calls', r) > Copies(calls, r)}

\* C11: after a refresh whose token response had status 200 returned, the
\* call succeeded and the Credential of its key holds the response's
\* access_token.
C11_RefreshStoresAccessToken ==
    (last.op = "refresh" /\ last.status = 200)
        => /\ last.outcome = "ok"
           /\ user_connectors[last.key] # None
           /\ Row(last.key).access_token = last.data.access_token

\* C12: a refresh for a key can always start while refreshes for other keys
\* await their POST, every refresh in flight has sent its own POST, and a
\* refresh that returns leaves the Credential of every other key unchanged.
C12_KeysIndependent ==
    /\ [](\A k \in KeySet :
             BagCardinality(calls) < MaxInFlight => ENABLED RefreshAccessToken(k))
    /\ [](\A r \in InFlight : r.op = "refresh" => r.posts = 1)
    /\ [][RespondStep("refresh") =>
             \A k \in KeySet : k # last'.key =>
                 user_connectors'[k] = user_connectors[k]]_vars
C12_Witness ==
    \E r1, r2 \in InFlight :
        /\ r1.op = "refresh" /\ r2.op = "refresh"
        /\ r1.key # r2.key
        /\ user_connectors[r1.key] # None /\ user_connectors[r2.key] # None

\* C13: a callback without provider error whose state is not in the state
\* store ends with "Invalid OAuth state" without a POST and without a write,
\* and a callback sends its POST only for a state that is in the store.
C13_AbsentStateTerminal ==
    [][/\ (last'.op = "callback" /\ ~last'.err
             /\ last'.state \notin oauth_states
             /\ (last' # last \/ batch' # batch))
          => /\ last'.outcome = "Invalid OAuth state"
             /\ last'.http # 200
             /\ last'.posts = 0
             /\ UNCHANGED <<calls, consumed, user_connectors>>
       /\ \A r \in Dispatched : r.op = "callback" => r.state \in oauth_states
      ]_vars
C13_Witness ==
    /\ last.op = "callback" /\ ~last.err
    /\ last.state \notin oauth_states
    /\ last.outcome = "Invalid OAuth state"
    /\ created_at["s1"] # None

\* C14: a refresh answered 400 has made exactly one POST; a refresh answered
\* by another non-2xx status or by a transport failure has been retried
\* once, so it has made two.
C14_RefreshClassified ==
    last.op = "refresh" =>
        /\ last.status = 400 => last.posts = 1
        /\ (last.status \in {0, 500} /\ last.outcome \notin {"", "CancelledError"})
              => last.posts = 2

\* C15: a callback or refresh makes at most two POSTs: exactly two when the
\* token endpoint failed with a transport error or a 5xx, one when it
\* answered 4xx.
C15_BoundedRetry ==
    (last.op \in {"callback", "refresh"} /\ last.posts > 0
       /\ last.outcome # "CancelledError") =>
        /\ last.posts <= 2
        /\ last.status = 400 => last.posts = 1
        /\ last.status \in {0, 500} => last.posts = 2

\* C16: a refresh sends its POST only for a key that has a stored
\* Credential with a refresh_token.
C16_RefreshNeedsRefreshToken ==
    [][\A r \in Dispatched : r.op = "refresh" =>
          /\ user_connectors[r.key] # None
          /\ Row(r.key).refresh_token # None]_vars

\* C17: the URL initiate returned carries client_id, redirect_uri,
\* response_type=code, scope and state, its state value is in the state
\* store, and initiate sent no POST.
C17_IssuedStateStored ==
    last.op = "initiate" =>
        /\ last.url # None
        /\ DOMAIN Val(last.url) =
             {"client_id", "redirect_uri", "response_type", "scope", "state"}
        /\ Val(last.url).response_type = "code"
        /\ Val(last.url).state \in oauth_states
        /\ last.posts = 0

\* C18: a callback whose 200 response lacks access_token or expires_in does
\* not return successfully.
C18_ResponseValidated ==
    (last.op = "callback" /\ last.status = 200
       /\ (last.data.access_token = None \/ last.data.expires_in = None))
        => last.outcome # "ok"

\* C19: every stored Credential has an expires_at.
C19_ExpiryPresent ==
    \A k \in KeySet :
        user_connectors[k] # None => Row(k).expires_at # None

\* C20: the access_token and refresh_token of every stored Credential are
\* those of one token response.
C20_TokensFromOneResponse ==
    \A k \in KeySet :
        user_connectors[k] # None =>
            \E b \in TokenBodies :
                /\ Row(k).access_token = b.access_token
                /\ Row(k).refresh_token = b.refresh_token
C20_Witness ==
    /\ last.op = "refresh" /\ last.status = 200
    /\ last.data.access_token # None /\ last.data.refresh_token = None
    /\ user_connectors[last.key] # None
    /\ Row(last.key).refresh_token # None

\* the rows one upsert can write
CompleteRows == {TokenRow(b) : b \in TokenBodies \ {EmptyBody}}
\* this step is a get_access_token or get_refresh_token call returning
ReadStep ==
    /\ last'.op \in {"get", "get_refresh"}
    /\ last' # last \/ batch' # batch
\* the column of a row the reading call selects
Selected(op, row) ==
    IF op = "get" THEN row.access_token ELSE row.refresh_token

\* C21: every stored Credential is the complete row of one write, a write
\* stores the complete row of its call's response in one step, and a reader
\* that finds a row is handed the column of such a complete row.
C21_AtomicCredentialWrites ==
    /\ [](\A k \in KeySet :
             user_connectors[k] # None => Row(k) \in CompleteRows)
    /\ [][/\ \A k \in KeySet :
                user_connectors'[k] # user_connectors[k] =>
                    user_connectors'[k] = Some(TokenRow(last'.data))
          /\ (ReadStep /\ last'.outcome = "ok") =>
                \E row \in CompleteRows :
                    /\ user_connectors[last'.key] = Some(row)
                    /\ last'.token = Selected(last'.op, row)]_vars
C21_Witness ==
    /\ last.op \in {"get", "get_refresh"} /\ last.outcome = "ok"
    /\ user_connectors[last.key] # None
    /\ \E r \in InFlight : r.op = "callback" /\ r.key = last.key

\* C22: no step removes a stored Credential, and a callback that returns
\* successfully for a key that has a Credential leaves under that key the
\* row of its own response.
C22_ReplacedNeverDeleted ==
    [][/\ \A k \in KeySet :
             user_connectors[k] # None => user_connectors'[k] # None
       /\ (RespondStep("callback") /\ last'.outcome = "ok"
             /\ user_connectors[last'.key] # None)
            => user_connectors'[last'.key] = Some(TokenRow(last'.data))]_vars

\* C23: once a callback that passed the state check has ended, no callback
\* presenting the same state sends a POST; a callback ends successfully
\* only after passing the state check and a 200 response; and a callback
\* that failed carries a message.
C23_AttemptStates ==
    [][/\ \A r \in Dispatched : r.op = "callback" =>
             ~(/\ last.op = "callback" /\ last.accepted
               /\ last.outcome # "" /\ last.state = r.state)
       /\ (last'.op = "callback" /\ last'.outcome = "ok")
            => (last'.accepted /\ last'.status = 200)
       /\ (last'.op = "callback" /\ last'.outcome \notin {"", "ok"})
            => last'.detail.msg # ""]_vars

\* C24: a get_access_token call for an expiring Credential that arrives
\* right after a refresh for its key has completed, with no other refresh
\* for the key in flight, starts a new refresh.
C24_FinishedRefreshCleared ==
    [][(/\ last.op = "refresh"
        /\ last.outcome \notin {"", "CancelledError"}
        /\ GetStep /\ batch'.key = last.key
        /\ Expiring(last.key)
        /\ \A r \in InFlight : ~(r.op = "refresh" /\ r.key = last.key))
        => \E r \in Dispatched : r.op = "refresh" /\ r.key = last.key]_vars

\* C25: what a callback or a refresh answered by a non-200 response hands
\* its caller does not contain the response body.
C25_NoProviderBodyInResponse ==
    (last.op \in {"callback", "refresh"} /\ last.status \notin {0, 200})
        => last.detail.echo = None

\* C26: a refresh that has sent its POST leaves the calls in flight only
\* when its response has been handled, never by the cancellation of its
\* caller.
C26_CancelledRequestCompletes ==
    [][\A r \in InFlight :
          (r.op = "refresh" /\ Copies(calls', r) < Copies(calls, r))
            => (/\ last'.op = "refresh" /\ last'.key = r.key
                /\ last'.outcome # "CancelledError")]_vars

\* C27: after a callback that passed the state check has failed, no
\* callback presenting the same state sends a POST, and one that ends at
\* once without provider error ends with "Invalid OAuth state".
C27_FailedAttemptSpendsState ==
    [][(/\ last.op = "callback" /\ last.accepted
        /\ last.outcome \notin {"", "ok", "CancelledError"})
        => /\ \A r \in Dispatched : r.op = "callback" => r.state # last.state
           /\ (/\ last'.op = "callback" /\ last'.state = last.state
               /\ ~last'.err /\ last' # last /\ calls' = calls)
                => last'.outcome = "Invalid OAuth state"]_vars

\* C28: the row of a key changes only in the step in which a callback for
\* that key returns, and a get_access_token or get_refresh_token call for a
\* key is handed the column of that key's own row (nothing when the key has
\* no row) and changes no row.
C28_TenantIsolation ==
    [][/\ \A k \in KeySet :
             user_connectors'[k] # user_connectors[k] =>
                 (RespondStep("callback") /\ last'.key = k)
       /\ ReadStep =>
             /\ UNCHANGED user_connectors
             /\ IF user_connectors[last'.key] = None
                  THEN last'.outcome = "no row" /\ last'.token = None
                  ELSE /\ last'.outcome = "ok"
                       /\ last'.token = Selected(last'.op, Row(last'.key))]_vars
C28_Witness ==
    /\ last.op = "get" /\ last.outcome = "ok"
    /\ \A k \in KeySet : user_connectors[k] # None
    /\ \E k \in KeySet :
          k # last.key /\ Row(k).access_token # Row(last.key).access_token
    /\ last.token = Row(last.key).access_token

\* C29: a callback carrying a provider error is answered 400 with detail
\* "Authorization failed: <error>", a callback is answered 500 only when
\* the exchange raised, and a successful exchange is answered 200.
C29_CallbackStatuses ==
    (last.op = "callback" /\ last.outcome \notin {"", "CancelledError"})
        => /\ last.err =>
                /\ last.http = 400
                /\ last.detail.msg = "Authorization failed"
                /\ last.detail.error # None
           /\ last.http = 500 => (~last.err /\ last.outcome # "ok")
           /\ last.outcome = "ok" => last.http = 200

\* C30: the list clean returned has no two equal rows and no None value,
\* its rows are cleaned rows of the input in the input's order, and cleaning
\* it again returns it unchanged.
C30_CleanDedupsAndFills ==
    /\ etl.once # None =>
         LET out == Val(etl.once)
         IN  /\ \A i, j \in DOMAIN out :
                    i # j => AsDict(out[i]) # AsDict(out[j])
             /\ \A i \in DOMAIN out : \A n \in DOMAIN out[i] :
                    out[i][n][2] # None
             /\ \E f \in [DOMAIN out -> DOMAIN etl.data] :
                    /\ \A i, j \in DOMAIN out : i < j => f[i] < f[j]
                    /\ \A i \in DOMAIN out : out[i] = CleanedRow(etl.data[f[i]])
    /\ etl.twice # None => etl.twice = etl.once
====
